---- MODULE Spec2Model ----
(***************************************************************************)
(* web_server_tokio: the request router handle_stream (src/lib.rs) and the *)
(* accept/spawn/join loop of main (src/main.rs).                           *)
(*                                                                         *)
(* Text is modelled at the byte level: a request line, a status line and a *)
(* response are sequences of byte values; the contents of a payload file   *)
(* is a sequence of Unicode code points (a Rust String), whose len() is    *)
(* the length of its UTF-8 encoding.                                       *)
(*                                                                         *)
(* Two specifications share the handler's steps:                           *)
(*   SpecHandler  one handle_stream call on one stream, as the unit tests  *)
(*                of src/lib.rs drive it, over many requests and payloads; *)
(*   Spec         main: bind, the accept loop with one spawned task per    *)
(*                accepted connection, the join loop.                      *)
(***************************************************************************)
EXTENDS Integers, Sequences, FiniteSets

VARIABLES
    pc,        \* where main (or the test) is suspended
    count,     \* the loop variable of main.rs:18
    tasks,     \* the Vec of main.rs:16, one entry per spawned task
    joined,    \* how many entries of tasks the join loop has awaited
    result,    \* what main returned: "none" until it returns
    fs,        \* the payload files: file name -> contents
    accepted,  \* how many streams listener.accept() has returned
    failed,    \* how many times listener.accept() has returned an error
    stdout,    \* how many "Completed request" lines were printed
    stderr,    \* how many errors dbg! has written
    now,       \* the time, in seconds since the call began (SpecTimed)
    deadline,  \* the Instant at which the call's Sleep completes (SpecTimed)
    stream     \* what the peer of a TcpStream has sent, and how it ended (SpecTcp)

vars ==
    <<pc, count, tasks, joined, result, fs, accepted, failed, stdout, stderr,
      now, deadline, stream>>

(***************************************************************************)
(* Bounds of the model (the environment, not the program).                 *)
(***************************************************************************)
\* longest payload file, in characters
MaxPayloadChars == 4
\* most connections whose task has not finished yet, at any time
MaxInFlight == 2
\* the last second of a timed run
MaxTime == 7

(***************************************************************************)
(* Program constants.                                                      *)
(***************************************************************************)
\* main.rs:15  let capacity = 10;
capacity == 10
\* lib.rs:81  time::Duration::from_secs(5)
SLEEP_SECS == 5

\* "GET / HTTP/1.1"
GET_ROOT == <<71,69,84,32,47,32,72,84,84,80,47,49,46,49>>
\* "GET /sleep HTTP/1.1"
GET_SLEEP == <<71,69,84,32,47,115,108,101,101,112,32,72,84,84,80,47,49,46,49>>
\* "HTTP/1.1 200 OK"
STATUS_OK == <<72,84,84,80,47,49,46,49,32,50,48,48,32,79,75>>
\* "HTTP/1.1 404 NOT FOUND"
STATUS_NOT_FOUND == <<72,84,84,80,47,49,46,49,32,52,48,52,32,78,79,84,32,70,79,85,78,68>>
\* "\r\nContent-Length: "
CONTENT_LENGTH == <<13,10,67,111,110,116,101,110,116,45,76,101,110,103,116,104,58,32>>
\* "\r\n\r\n"
BLANK_LINE == <<13,10,13,10>>

HELLO_FILE == "hello.html"
NOT_FOUND_FILE == "404.html"
FileNames == {HELLO_FILE, NOT_FOUND_FILE}

(***************************************************************************)
(* The environment's inputs.                                               *)
(***************************************************************************)
\* "get / http/1.1": GET_ROOT in lower case
GET_ROOT_LOWER == <<103,101,116,32,47,32,104,116,116,112,47,49,46,49>>
\* "GET / HTTP/1.1 ": GET_ROOT and a trailing space
GET_ROOT_SPACE == GET_ROOT \o <<32>>
\* "GET /sleep HTTP/1.1\t": GET_SLEEP and a trailing tab
GET_SLEEP_TAB == GET_SLEEP \o <<9>>
\* "GET /x HTTP/1.1"
GET_OTHER == <<71,69,84,32,47,120,32,72,84,84,80,47,49,46,49>>

\* request lines a stream's read_request may return
Requests ==
    {GET_ROOT, GET_SLEEP, <<>>, GET_ROOT_LOWER, GET_ROOT_SPACE, GET_SLEEP_TAB, GET_OTHER}
\* request lines the clients of a server run send: one asks for the delayed
\* page, one closes without sending a line
ServerRequests == {GET_SLEEP, <<>>}

\* io::ErrorKind values the collaborators may fail with
ErrorKinds == {"NotFound", "BrokenPipe", "InvalidData"}
ServerErrorKinds == {"BrokenPipe"}

\* 'a' (1 byte in UTF-8) and the euro sign (3 bytes)
Chars == {97, 8364}
Payloads == UNION {[1..n -> Chars] : n \in 0..MaxPayloadChars}
FileSystems == [FileNames -> Payloads]
ServerFileSystems == {[f \in FileNames |-> IF f = HELLO_FILE THEN <<97, 8364>> ELSE <<8364>>]}

(***************************************************************************)
(* Text.                                                                   *)
(***************************************************************************)
\* the UTF-8 encoding of one code point
Utf8Char(c) ==
    IF c < 128 THEN <<c>>
    ELSE IF c < 2048 THEN <<192 + (c \div 64), 128 + (c % 64)>>
    ELSE <<224 + (c \div 4096), 128 + ((c \div 64) % 64), 128 + (c % 64)>>

\* String::as_bytes: the UTF-8 encoding of a string
RECURSIVE AsBytes(_)
AsBytes(s) == IF s = <<>> THEN <<>> ELSE Utf8Char(Head(s)) \o AsBytes(Tail(s))

\* the number of characters of a string, which is not its len()
CharCount(s) == Len(s)

\* String::len: the length in bytes
StrLen(s) == Len(AsBytes(s))

\* Display of a usize: the decimal digits, most significant first
RECURSIVE Decimal(_)
Decimal(n) == IF n < 10 THEN <<48 + n>> ELSE Decimal(n \div 10) \o <<48 + (n % 10)>>

\* FormatResponse with the header ended by one CRLF, the blank line missing
FormatResponseNoBlankLine(status_line, contents) ==
    status_line \o CONTENT_LENGTH \o Decimal(StrLen(contents)) \o <<13, 10>> \o AsBytes(contents)

\* format!("{}\r\nContent-Length: {}\r\n\r\n{}", status_line, contents.len(), contents)
FormatResponse(status_line, contents) ==
    status_line \o CONTENT_LENGTH \o Decimal(StrLen(contents)) \o BLANK_LINE \o AsBytes(contents)

(***************************************************************************)
(* handle_stream.  A call is a record: pc is the await it is suspended at  *)
(* ("returned" once it has returned), the locals it has bound so far, the  *)
(* value it returned, and calls, the calls that have returned from its     *)
(* collaborators (the stream, the timer, the file system), in order, each  *)
(* <<operation, argument, "Ok" or the io::ErrorKind it failed with>>.      *)
(***************************************************************************)
NoBytes == <<>>

\* the stream of a call that is not on a TcpStream
NoStream == [data |-> NoBytes, end |-> "none"]

NewCall ==
    [pc |-> "read", request |-> NoBytes, status_line |-> NoBytes,
     file_name |-> "", contents |-> NoBytes, response |-> NoBytes,
     result |-> "pending", error |-> "", calls |-> <<>>]

\* a collaborator's call has returned ret
Called(t, op, arg, ret) == [t EXCEPT !.calls = Append(@, <<op, arg, ret>>)]

\* the ? operator and a final Err: return the error as it is
ReturnErr(t, kind) == [t EXCEPT !.pc = "returned", !.result = "Err", !.error = kind]

ReturnOk(t) == [t EXCEPT !.pc = "returned", !.result = "Ok"]

\* str::trim_end and str::to_ascii_uppercase
RECURSIVE TrimEnd(_)
TrimEnd(s) ==
    IF s # <<>> /\ s[Len(s)] \in {9, 32} THEN TrimEnd(SubSeq(s, 1, Len(s) - 1)) ELSE s

ToAsciiUpper(s) == [i \in 1..Len(s) |-> IF s[i] \in 97..122 THEN s[i] - 32 ELSE s[i]]

\* Route matching the request line trimmed and in upper case
RouteNormalized(request) ==
    LET line == ToAsciiUpper(TrimEnd(request))
    IN  IF line = ToAsciiUpper(GET_ROOT)
        THEN [status_line |-> STATUS_OK, file_name |-> HELLO_FILE, sleep |-> FALSE]
        ELSE IF line = ToAsciiUpper(GET_SLEEP)
        THEN [status_line |-> STATUS_OK, file_name |-> HELLO_FILE, sleep |-> TRUE]
        ELSE [status_line |-> STATUS_NOT_FOUND, file_name |-> NOT_FOUND_FILE, sleep |-> FALSE]

\* the match of lib.rs:78-85, up to the first await in the selected arm
Route(request) ==
    IF request = GET_ROOT
    THEN [status_line |-> STATUS_OK, file_name |-> HELLO_FILE, sleep |-> FALSE]
    ELSE IF request = GET_SLEEP
    THEN [status_line |-> STATUS_OK, file_name |-> HELLO_FILE, sleep |-> TRUE]
    ELSE [status_line |-> STATUS_NOT_FOUND, file_name |-> NOT_FOUND_FILE, sleep |-> FALSE]

\* ReadRequest with unwrap_or_default in place of ?: a failed read is an empty line
ReadRequestDefault(t, reqs, kinds) ==
    LET r == Route(NoBytes)
    IN  {[Called(t, "read_request", NoBytes, k) EXCEPT
              !.pc = "load", !.status_line = r.status_line, !.file_name = r.file_name]
         : k \in kinds}
        \cup
        {LET q == Route(req)
             called == Called(t, "read_request", NoBytes, "Ok")
         IN  IF q.sleep
             THEN [called EXCEPT !.pc = "sleep", !.request = req]
             ELSE [called EXCEPT !.pc = "load", !.request = req,
                                 !.status_line = q.status_line, !.file_name = q.file_name]
         : req \in reqs}

\* stream.read_request().await? and the match, up to the next await
ReadRequest(t, reqs, kinds) ==
    {ReturnErr(Called(t, "read_request", NoBytes, k), k) : k \in kinds}
    \cup
    {LET r == Route(req)
         called == Called(t, "read_request", NoBytes, "Ok")
     IN  IF r.sleep
         THEN [called EXCEPT !.pc = "sleep", !.request = req]
         ELSE [called EXCEPT !.pc = "load", !.request = req,
                             !.status_line = r.status_line, !.file_name = r.file_name]
     : req \in reqs}

\* time::sleep(..).await has completed; the arm yields its pair
Wake(t) ==
    LET r == Route(t.request)
    IN  [Called(t, "sleep", SLEEP_SECS, "Ok") EXCEPT
             !.pc = "load", !.status_line = r.status_line, !.file_name = r.file_name]

\* Load with unwrap_or_default in place of ?: an unreadable file is an empty payload
LoadDefault(t, files, kinds) ==
    {[Called(t, "read_to_string", t.file_name, k) EXCEPT
         !.pc = "write", !.response = FormatResponse(t.status_line, NoBytes)]
     : k \in kinds}
    \cup
    {[Called(t, "read_to_string", t.file_name, "Ok") EXCEPT
         !.pc = "write", !.contents = files[t.file_name],
         !.response = FormatResponse(t.status_line, files[t.file_name])]}

\* fs::read_to_string(file_name).await? and the format!
Load(t, files, kinds) ==
    {ReturnErr(Called(t, "read_to_string", t.file_name, k), k) : k \in kinds}
    \cup
    {[Called(t, "read_to_string", t.file_name, "Ok") EXCEPT
         !.pc = "write", !.contents = files[t.file_name],
         !.response = FormatResponse(t.status_line, files[t.file_name])]}

\* Write in a retry loop: a failed write_response is tried again
WriteRetry(t, kinds) ==
    {Called(t, "write_response", t.response, k) : k \in kinds}
    \cup
    {ReturnOk(Called(t, "write_response", t.response, "Ok"))}

\* Write with the value of write_response dropped and Ok(()) returned
WriteIgnored(t, kinds) ==
    {ReturnOk(Called(t, "write_response", t.response, k)) : k \in kinds \cup {"Ok"}}

\* stream.write_response(response.as_bytes()).await, whose value is returned
Write(t, kinds) ==
    {ReturnErr(Called(t, "write_response", t.response, k), k) : k \in kinds}
    \cup
    {ReturnOk(Called(t, "write_response", t.response, "Ok"))}

(***************************************************************************)
(* SpecHandler: one call of handle_stream, awaited by its caller.          *)
(***************************************************************************)
InitHandler ==
    /\ pc = "test"
    /\ count = 0
    /\ tasks = <<NewCall>>
    /\ joined = 0
    /\ result = "none"
    /\ fs \in FileSystems
    /\ accepted = 0
    /\ failed = 0
    /\ stdout = 0
    /\ stderr = 0
    /\ now = 0
    /\ deadline = 0
    /\ stream = NoStream

\* the call is at its first await: read_request returns
CallRead ==
    /\ pc = "test"
    /\ tasks[1].pc = "read"
    /\ \E t \in ReadRequest(tasks[1], Requests, ErrorKinds) : tasks' = <<t>>
    /\ UNCHANGED <<pc, count, joined, result, fs,
                   now, deadline, stream, accepted, failed, stdout, stderr>>

\* the sleep of the "GET /sleep HTTP/1.1" arm is over
CallWake ==
    /\ pc = "test"
    /\ tasks[1].pc = "sleep"
    /\ tasks' = <<Wake(tasks[1])>>
    /\ UNCHANGED <<pc, count, joined, result, fs,
                   now, deadline, stream, accepted, failed, stdout, stderr>>

\* read_to_string returns
CallLoad ==
    /\ pc = "test"
    /\ tasks[1].pc = "load"
    /\ \E t \in Load(tasks[1], fs, ErrorKinds) : tasks' = <<t>>
    /\ UNCHANGED <<pc, count, joined, result, fs,
                   now, deadline, stream, accepted, failed, stdout, stderr>>

\* write_response returns, and handle_stream with it
CallWrite ==
    /\ pc = "test"
    /\ tasks[1].pc = "write"
    /\ \E t \in Write(tasks[1], ErrorKinds) : tasks' = <<t>>
    /\ UNCHANGED <<pc, count, joined, result, fs,
                   now, deadline, stream, accepted, failed, stdout, stderr>>

NextHandler == CallRead \/ CallWake \/ CallLoad \/ CallWrite

SpecHandler == InitHandler /\ [][NextHandler]_vars

(***************************************************************************)
(* SpecTimed: one call of handle_stream, with time.  now counts the        *)
(* seconds since the call began; time passes between any two steps.        *)
(* time::sleep(d) makes a Sleep whose deadline is Instant::now() + d, and  *)
(* its await completes at or after the deadline.                           *)
(***************************************************************************)
InitTimed ==
    /\ pc = "test"
    /\ count = 0
    /\ tasks = <<NewCall>>
    /\ joined = 0
    /\ result = "none"
    /\ fs \in ServerFileSystems
    /\ accepted = 0
    /\ failed = 0
    /\ stdout = 0
    /\ stderr = 0
    /\ now = 0
    /\ deadline = 0
    /\ stream = NoStream

\* a second passes
Tick ==
    /\ now < MaxTime
    /\ now' = now + 1
    /\ UNCHANGED <<pc, count, tasks, joined, result, fs, accepted, failed, stdout, stderr,
                   deadline, stream>>

\* read_request returns; the sleep arm makes its Sleep
TimedRead ==
    /\ pc = "test"
    /\ tasks[1].pc = "read"
    /\ \E t \in ReadRequest(tasks[1], Requests, ErrorKinds) :
          /\ tasks' = <<t>>
          /\ deadline' = IF t.pc = "sleep" THEN now + SLEEP_SECS ELSE deadline
    /\ UNCHANGED <<pc, count, joined, result, fs, accepted, failed, stdout, stderr,
                   now, stream>>

\* TimedWake for a Sleep that is made and dropped without .await
TimedWakeNoAwait ==
    /\ pc = "test"
    /\ tasks[1].pc = "sleep"
    /\ tasks' = <<Wake(tasks[1])>>
    /\ UNCHANGED <<pc, count, joined, result, fs, accepted, failed, stdout, stderr,
                   now, deadline, stream>>

\* the Sleep's await completes: its deadline has been reached
TimedWake ==
    /\ pc = "test"
    /\ tasks[1].pc = "sleep"
    /\ now >= deadline
    /\ tasks' = <<Wake(tasks[1])>>
    /\ UNCHANGED <<pc, count, joined, result, fs, accepted, failed, stdout, stderr,
                   now, deadline, stream>>

NextTimed == Tick \/ TimedRead \/ TimedWake \/ CallLoad \/ CallWrite

SpecTimed == InitTimed /\ [][NextTimed]_vars

(***************************************************************************)
(* SpecTcp: one call of handle_stream on a TcpStream.  stream.data is what *)
(* the peer sends in all, stream.end how the stream ends after it: "eof"   *)
(* (the peer closes), "open" (the peer sends nothing more and stays), or   *)
(* the io::ErrorKind the transport fails with.                             *)
(***************************************************************************)
\* the index of the first LF of data, 0 if none
RECURSIVE FirstNewline(_, _)
FirstNewline(data, i) ==
    IF i > Len(data) THEN 0
    ELSE IF data[i] = 10 THEN i
    ELSE FirstNewline(data, i + 1)

\* String::from_utf8(..).is_ok(), for sequences of up to three bytes each
RECURSIVE ValidUtf8(_)
ValidUtf8(b) ==
    IF b = <<>> THEN TRUE
    ELSE IF b[1] < 128 THEN ValidUtf8(Tail(b))
    ELSE IF b[1] \in 194..223
    THEN Len(b) >= 2 /\ b[2] \in 128..191 /\ ValidUtf8(SubSeq(b, 3, Len(b)))
    ELSE IF b[1] \in 224..239
    THEN /\ Len(b) >= 3 /\ b[2] \in 128..191 /\ b[3] \in 128..191
         /\ ValidUtf8(SubSeq(b, 4, Len(b)))
    ELSE FALSE

\* a line as Lines yields it: without its LF, and without the CR before the LF
StripNewline(b) ==
    IF b # <<>> /\ b[Len(b)] = 10
    THEN IF Len(b) >= 2 /\ b[Len(b) - 1] = 13
         THEN SubSeq(b, 1, Len(b) - 2)
         ELSE SubSeq(b, 1, Len(b) - 1)
    ELSE b

\* io::BufReader::new(..).lines().next_line().await: the bytes up to the first LF, or
\* to the end of the stream; no byte at all is None; bytes that are not UTF-8 are an
\* InvalidData error; a transport failure before the LF is that error
NextLine(st) ==
    LET k == FirstNewline(st.data, 1)
        buf == IF k > 0 THEN SubSeq(st.data, 1, k) ELSE st.data
    IN  IF k = 0 /\ st.end = "open" THEN [tag |-> "Pending", line |-> NoBytes, kind |-> ""]
        ELSE IF k = 0 /\ st.end # "eof" THEN [tag |-> "Err", line |-> NoBytes, kind |-> st.end]
        ELSE IF buf = <<>> THEN [tag |-> "None", line |-> NoBytes, kind |-> ""]
        ELSE IF ~ValidUtf8(buf) THEN [tag |-> "Err", line |-> NoBytes, kind |-> "InvalidData"]
        ELSE [tag |-> "Some", line |-> StripNewline(buf), kind |-> ""]

\* TcpReadRequest with ok_or(UnexpectedEof)? in place of unwrap_or_default()
TcpReadRequestEofError(st) ==
    LET r == NextLine(st)
    IN  IF r.tag = "None" THEN [r EXCEPT !.tag = "Err", !.kind = "UnexpectedEof"]
        ELSE IF r.tag = "Some" THEN [r EXCEPT !.tag = "Ok"]
        ELSE r

\* <TcpStream as StreamAdapter>::read_request: next_line().await?.unwrap_or_default()
TcpReadRequest(st) ==
    LET r == NextLine(st)
    IN  IF r.tag \in {"None", "Some"} THEN [r EXCEPT !.tag = "Ok"] ELSE r

\* lines a peer may send, the last two a euro sign and a byte that is not UTF-8
PeerLines == {NoBytes, GET_ROOT, GET_SLEEP, GET_OTHER, <<226, 130, 172>>, <<255>>}
\* what may follow the line: nothing, LF, CR LF, or LF and a second line "x\n"
PeerEndings == {NoBytes, <<10>>, <<13, 10>>, <<10, 120, 10>>}
StreamEnds == {"eof", "open", "ConnectionReset"}
Streams == {[data |-> l \o e, end |-> x] : l \in PeerLines, e \in PeerEndings, x \in StreamEnds}

InitTcp ==
    /\ pc = "test"
    /\ count = 0
    /\ tasks = <<NewCall>>
    /\ joined = 0
    /\ result = "none"
    /\ fs \in ServerFileSystems
    /\ accepted = 0
    /\ failed = 0
    /\ stdout = 0
    /\ stderr = 0
    /\ now = 0
    /\ deadline = 0
    /\ stream \in Streams

\* read_request returns what the TcpStream yields; it does not return while the
\* stream is open with no full line
TcpRead ==
    /\ pc = "test"
    /\ tasks[1].pc = "read"
    /\ LET r == TcpReadRequest(stream)
       IN  /\ r.tag # "Pending"
           /\ \E t \in ReadRequest(tasks[1],
                                   IF r.tag = "Ok" THEN {r.line} ELSE {},
                                   IF r.tag = "Err" THEN {r.kind} ELSE {}) :
                 tasks' = <<t>>
    /\ UNCHANGED <<pc, count, joined, result, fs, accepted, failed, stdout, stderr,
                   now, deadline, stream>>

NextTcp == TcpRead \/ CallWake \/ CallLoad \/ CallWrite

SpecTcp == InitTcp /\ [][NextTcp]_vars

(***************************************************************************)
(* Spec: main.  pc is the await main is suspended at: "bind", "accept"     *)
(* (listener.accept() of iteration count), "join" (tasks[joined + 1]),     *)
(* or "returned".  tasks is the Vec of main.rs:16: one entry per spawned   *)
(* task, in push order, holding the task's handle_stream call while it     *)
(* runs.  A task that finishes drops its stream and its locals: behind its *)
(* JoinHandle is left that it finished; its report is on stdout or stderr. *)
(***************************************************************************)
Init ==
    /\ pc = "bind"
    /\ count = 0
    /\ tasks = <<>>
    /\ joined = 0
    /\ result = "none"
    /\ fs \in ServerFileSystems
    /\ accepted = 0
    /\ failed = 0
    /\ stdout = 0
    /\ stderr = 0
    /\ now = 0
    /\ deadline = 0
    /\ stream = NoStream

\* the body of the spawned task after handle_stream's await: main.rs:27-34
Finished(t) ==
    [pc |-> "finished", request |-> NoBytes, status_line |-> NoBytes,
     file_name |-> "", contents |-> NoBytes, response |-> NoBytes,
     result |-> "pending", error |-> "", calls |-> <<>>]

\* a step of the spawned task: the call's step and, once the call has returned,
\* the report (println! of Ok, dbg! of Err) that ends the task
TaskStep(i, t) ==
    /\ tasks' = [tasks EXCEPT ![i] = IF t.pc = "returned" THEN Finished(t) ELSE t]
    /\ stdout' = IF t.pc = "returned" /\ t.result = "Ok" THEN stdout + 1 ELSE stdout
    /\ stderr' = IF t.pc = "returned" /\ t.result = "Err" THEN stderr + 1 ELSE stderr
    /\ UNCHANGED <<pc, count, joined, result, fs, now, deadline, stream, accepted, failed>>

Running(ts) == {i \in 1..Len(ts) : ts[i].pc # "finished"}

\* what follows the accept loop: the join loop, up to its first await
AfterLoop(ts) == IF Len(ts) = 0 THEN "returned" ELSE "join"

\* BindErr with the error reported and the listener replaced by a default one
BindErrIgnored ==
    /\ pc = "bind"
    /\ pc' = "accept"
    /\ count' = 1
    /\ result' = "Err"
    /\ UNCHANGED <<tasks, joined, fs, now, deadline, stream, accepted, failed, stdout, stderr>>

\* net::TcpListener::bind("127.0.0.1:7878").await? succeeds
BindOk ==
    /\ pc = "bind"
    /\ pc' = "accept"
    /\ count' = 1
    /\ UNCHANGED <<tasks, joined, result, fs,
                   now, deadline, stream, accepted, failed, stdout, stderr>>

\* the bind fails: main returns the error
BindErr ==
    /\ pc = "bind"
    /\ pc' = "returned"
    /\ result' = "Err"
    /\ UNCHANGED <<count, tasks, joined, fs,
                   now, deadline, stream, accepted, failed, stdout, stderr>>

\* LoopStep of for count in 1..capacity, the range without its end
LoopStepExclusive(ts) ==
    /\ tasks' = ts
    /\ IF count = capacity - 1
       THEN /\ pc' = AfterLoop(ts)
            /\ result' = IF Len(ts) = 0 THEN "Ok" ELSE result
       ELSE /\ pc' = "accept"
            /\ result' = result
    /\ count' = count + 1
    /\ UNCHANGED <<joined, fs, now, deadline, stream, stdout>>

\* one iteration of the for loop, accept returning a stream: spawn and push
LoopStep(ts) ==
    /\ tasks' = ts
    /\ IF count = capacity
       THEN /\ pc' = AfterLoop(ts)
            /\ result' = IF Len(ts) = 0 THEN "Ok" ELSE result
       ELSE /\ pc' = "accept"
            /\ result' = result
    /\ count' = count + 1
    /\ UNCHANGED <<joined, fs, now, deadline, stream, stdout>>

\* AcceptOk with the JoinHandle dropped instead of pushed
AcceptOkDetached ==
    /\ pc = "accept"
    /\ Cardinality(Running(tasks)) < MaxInFlight
    /\ accepted' = accepted + 1
    /\ UNCHANGED <<failed, stderr>>
    /\ LoopStep(tasks)

AcceptOk ==
    /\ pc = "accept"
    /\ Cardinality(Running(tasks)) < MaxInFlight
    /\ accepted' = accepted + 1
    /\ UNCHANGED <<failed, stderr>>
    /\ LoopStep(Append(tasks, NewCall))

\* AcceptErr with ? in place of the match: main returns the error
AcceptErrFatal ==
    /\ pc = "accept"
    /\ failed' = failed + 1
    /\ pc' = "returned"
    /\ result' = "Err"
    /\ UNCHANGED <<count, tasks, joined, fs, now, deadline, stream, accepted, stdout, stderr>>

\* AcceptErr with break in place of continue
AcceptErrBreak ==
    /\ pc = "accept"
    /\ failed' = failed + 1
    /\ stderr' = stderr + 1
    /\ pc' = AfterLoop(tasks)
    /\ result' = IF Len(tasks) = 0 THEN "Ok" ELSE result
    /\ UNCHANGED <<count, tasks, joined, fs, now, deadline, stream, accepted, stdout>>

\* one iteration, accept returning an error: dbg! and continue
AcceptErr ==
    /\ pc = "accept"
    /\ failed' = failed + 1
    /\ stderr' = stderr + 1
    /\ accepted' = accepted
    /\ LoopStep(tasks)

\* TaskRead with a sleep that blocks the worker thread (std::thread::sleep): no
\* other task is polled while one sleeps
TaskReadBlocked(i) ==
    /\ tasks[i].pc = "read"
    /\ \A j \in 1..Len(tasks) : tasks[j].pc # "sleep"
    /\ \E t \in ReadRequest(tasks[i], ServerRequests, ServerErrorKinds) : TaskStep(i, t)

TaskRead(i) ==
    /\ tasks[i].pc = "read"
    /\ \E t \in ReadRequest(tasks[i], ServerRequests, ServerErrorKinds) : TaskStep(i, t)

\* TaskWake for a sleep whose deadline is never reached
TaskWakeNever(i) ==
    /\ tasks[i].pc = "sleep"
    /\ FALSE
    /\ TaskStep(i, Wake(tasks[i]))

TaskWake(i) ==
    /\ tasks[i].pc = "sleep"
    /\ TaskStep(i, Wake(tasks[i]))

TaskLoad(i) ==
    /\ tasks[i].pc = "load"
    /\ \E t \in Load(tasks[i], fs, ServerErrorKinds) : TaskStep(i, t)

TaskWrite(i) ==
    /\ tasks[i].pc = "write"
    /\ \E t \in Write(tasks[i], ServerErrorKinds) : TaskStep(i, t)

\* Join with task.await? on a Result: a task's failure ends main with an error
JoinPropagate ==
    /\ pc = "join"
    /\ tasks[joined + 1].pc = "finished"
    /\ joined' = joined + 1
    /\ IF stderr > failed
       THEN pc' = "returned" /\ result' = "Err"
       ELSE IF joined + 1 = Len(tasks)
       THEN pc' = "returned" /\ result' = "Ok"
       ELSE pc' = "join" /\ result' = result
    /\ UNCHANGED <<count, tasks, fs, now, deadline, stream, accepted, failed, stdout, stderr>>

\* Join with a deadline: a task that has not finished is aborted, then joined
JoinAbort ==
    /\ pc = "join"
    /\ joined' = joined + 1
    /\ tasks' = [tasks EXCEPT ![joined + 1] = Finished(@)]
    /\ IF joined + 1 = Len(tasks)
       THEN pc' = "returned" /\ result' = "Ok"
       ELSE pc' = "join" /\ result' = result
    /\ UNCHANGED <<count, fs, now, deadline, stream, accepted, failed, stdout, stderr>>

\* Join without the await: the handle is dropped and the loop goes on
JoinNoAwait ==
    /\ pc = "join"
    /\ joined' = joined + 1
    /\ IF joined + 1 = Len(tasks)
       THEN pc' = "returned" /\ result' = "Ok"
       ELSE pc' = "join" /\ result' = result
    /\ UNCHANGED <<count, tasks, fs, now, deadline, stream, accepted, failed, stdout, stderr>>

\* task.await of the join loop returns and its value (Ok(()) or a JoinError) is
\* discarded by let _; Ok(()) after the last
Join ==
    /\ pc = "join"
    /\ tasks[joined + 1].pc = "finished"
    /\ joined' = joined + 1
    /\ IF joined + 1 = Len(tasks)
       THEN pc' = "returned" /\ result' = "Ok"
       ELSE pc' = "join" /\ result' = result
    /\ UNCHANGED <<count, tasks, fs, now, deadline, stream, accepted, failed, stdout, stderr>>

Next ==
    \/ BindOk
    \/ BindErr
    \/ AcceptOk
    \/ AcceptErr
    \/ \E i \in 1..Len(tasks) : TaskRead(i)
    \/ \E i \in 1..Len(tasks) : TaskWake(i)
    \/ \E i \in 1..Len(tasks) : TaskLoad(i)
    \/ \E i \in 1..Len(tasks) : TaskWrite(i)
    \/ Join

Spec == Init /\ [][Next]_vars

(***************************************************************************)
(* Properties of handle_stream, under SpecHandler.                         *)
(***************************************************************************)
\* the one call of SpecHandler
TheCall == tasks[1]

\* the indices in t.calls of the calls of operation op
CallsOf(t, op) == {i \in 1..Len(t.calls) : t.calls[i][1] = op}

ReturnedOk(t, op) == \E i \in CallsOf(t, op) : t.calls[i][3] = "Ok"

Recognized == {GET_ROOT, GET_SLEEP}

\* the number a sequence of decimal digits denotes
RECURSIVE DecimalValue(_)
DecimalValue(ds) ==
    IF ds = <<>> THEN 0 ELSE 10 * DecimalValue(SubSeq(ds, 1, Len(ds) - 1)) + (ds[Len(ds)] - 48)

IsNumber(ds) ==
    /\ ds # <<>>
    /\ \A i \in 1..Len(ds) : ds[i] \in 48..57
    /\ Len(ds) > 1 => ds[1] # 48

\* bytes is status CRLF "Content-Length: " L CRLF CRLF body, L the decimal of Len(body)
IsResponse(bytes, status, body) ==
    LET head == Len(status) + Len(CONTENT_LENGTH)
        digits == Len(bytes) - head - 4 - Len(body)
    IN  /\ digits >= 1
        /\ SubSeq(bytes, 1, Len(status)) = status
        /\ SubSeq(bytes, Len(status) + 1, Len(status) + 2) = <<13, 10>>
        /\ SubSeq(bytes, Len(status) + 3, head) =
              <<67,111,110,116,101,110,116,45,76,101,110,103,116,104,58,32>>
        /\ IsNumber(SubSeq(bytes, head + 1, head + digits))
        /\ DecimalValue(SubSeq(bytes, head + 1, head + digits)) = Len(body)
        /\ SubSeq(bytes, head + digits + 1, head + digits + 4) = <<13, 10, 13, 10>>
        /\ SubSeq(bytes, head + digits + 5, Len(bytes)) = body

\* the call passes write_response bytes that are the response (status, payload of file),
\* at most once, and returns Ok when that write succeeds
Responds(t, status, file) ==
    /\ t.pc = "write" => IsResponse(t.response, status, AsBytes(fs[file]))
    /\ \A i \in CallsOf(t, "write_response") :
          IsResponse(t.calls[i][2], status, AsBytes(fs[file]))
    /\ Cardinality(CallsOf(t, "write_response")) <= 1
    /\ ReturnedOk(t, "write_response") => t.pc = "returned" /\ t.result = "Ok"

\* C2: a call that read "GET / HTTP/1.1" or "GET /sleep HTTP/1.1" passes
\* write_response, once its payload is read, exactly the 200 response with the
\* hello payload and its byte length, the same for both lines, and returns Ok when
\* the write succeeds.
C2_RecognizedLines200 ==
    (ReturnedOk(TheCall, "read_request") /\ TheCall.request \in Recognized)
        => Responds(TheCall, STATUS_OK, HELLO_FILE)

C2_Witness ==
    /\ TheCall.pc = "returned"
    /\ TheCall.result = "Ok"
    /\ TheCall.request = GET_SLEEP
    /\ StrLen(fs[HELLO_FILE]) >= 10

\* C3 as stated: every call that read an unrecognized line writes the 404 response
\* and returns Ok.
C3_Original ==
    (TheCall.pc = "returned" /\ ReturnedOk(TheCall, "read_request")
        /\ TheCall.request \notin Recognized)
        => /\ TheCall.result = "Ok"
           /\ ReturnedOk(TheCall, "write_response")

\* C3, amended: a call that read an unrecognized line (the empty line, another case,
\* trailing whitespace) selects the 404 status and the not-found payload without any
\* delay; once that payload is read it passes write_response the 404 response, and it
\* returns Ok when the write succeeds; it returns an error only if the payload read
\* or the write failed.
C3_Unrecognized404 ==
    (ReturnedOk(TheCall, "read_request") /\ TheCall.request \notin Recognized)
        => /\ TheCall.status_line = STATUS_NOT_FOUND
           /\ TheCall.file_name = NOT_FOUND_FILE
           /\ TheCall.pc # "sleep"
           /\ CallsOf(TheCall, "sleep") = {}
           /\ Responds(TheCall, STATUS_NOT_FOUND, NOT_FOUND_FILE)
           /\ TheCall.result = "Err" =>
                 /\ TheCall.calls[Len(TheCall.calls)][1] \in {"read_to_string", "write_response"}
                 /\ TheCall.calls[Len(TheCall.calls)][3] = TheCall.error

C3_Witness ==
    /\ TheCall.pc = "returned"
    /\ TheCall.result = "Ok"
    /\ TheCall.request = GET_ROOT_SPACE
    /\ fs[NOT_FOUND_FILE] # fs[HELLO_FILE]

\* the index of the first blank line (CRLF CRLF) of bytes at or after i, 0 if none
RECURSIVE FindBlankLine(_, _)
FindBlankLine(bytes, i) ==
    IF i + 3 > Len(bytes) THEN 0
    ELSE IF SubSeq(bytes, i, i + 3) = <<13, 10, 13, 10>> THEN i
    ELSE FindBlankLine(bytes, i + 1)

\* the index after the last CRLF of bytes[1..n], 1 if none: the start of the last line
RECURSIVE LastLineStart(_, _)
LastLineStart(bytes, n) ==
    IF n < 2 THEN 1
    ELSE IF SubSeq(bytes, n - 1, n) = <<13, 10>> THEN n + 1
    ELSE LastLineStart(bytes, n - 1)

\* a response read back: its last header line is "Content-Length: " and a number,
\* and the number is the length of what follows the blank line
ContentLengthAgrees(bytes) ==
    LET blank == FindBlankLine(bytes, 1)
        line == SubSeq(bytes, LastLineStart(bytes, blank - 1), blank - 1)
        name == <<67,111,110,116,101,110,116,45,76,101,110,103,116,104,58,32>>
        value == SubSeq(line, Len(name) + 1, Len(line))
    IN  /\ blank > 0
        /\ SubSeq(line, 1, Len(name)) = name
        /\ IsNumber(value)
        /\ DecimalValue(value) = Len(bytes) - (blank + 3)

\* C4: in every response passed to write_response, on every route and for every
\* payload, the number of the Content-Length header is the byte length of the body
\* after the blank line.
C4_ContentLength ==
    /\ TheCall.pc = "write" => ContentLengthAgrees(TheCall.response)
    /\ \A i \in CallsOf(TheCall, "write_response") : ContentLengthAgrees(TheCall.calls[i][2])

C4_Witness ==
    /\ CallsOf(TheCall, "write_response") # {}
    /\ TheCall.request = GET_OTHER
    /\ StrLen(TheCall.contents) >= 10
    /\ StrLen(TheCall.contents) # CharCount(TheCall.contents)

\* C5: a failed read_request is the call's only call on a collaborator (no delay, no
\* payload read, no write_response) and the call returns that error, kind unchanged.
C5_ReadFailure ==
    \A i \in CallsOf(TheCall, "read_request") :
        TheCall.calls[i][3] # "Ok" =>
            /\ TheCall.pc = "returned"
            /\ TheCall.result = "Err"
            /\ TheCall.error = TheCall.calls[i][3]
            /\ Len(TheCall.calls) = 1

C5_Witness ==
    /\ TheCall.pc = "returned"
    /\ TheCall.calls = << <<"read_request", NoBytes, "NotFound">> >>

\* C6: a write_response that fails with kind k is the call's last call and its only
\* write, and the call returns Err of kind k.
C6_WriteFailure ==
    \A i \in CallsOf(TheCall, "write_response") :
        TheCall.calls[i][3] # "Ok" =>
            /\ TheCall.pc = "returned"
            /\ TheCall.result = "Err"
            /\ TheCall.error = TheCall.calls[i][3]
            /\ i = Len(TheCall.calls)
            /\ CallsOf(TheCall, "write_response") = {i}

C6_Witness ==
    /\ TheCall.pc = "returned"
    /\ TheCall.request = GET_ROOT
    /\ TheCall.calls[Len(TheCall.calls)][1] = "write_response"
    /\ TheCall.calls[Len(TheCall.calls)][3] = "BrokenPipe"

\* C7: a failed payload read, on any route, is the call's last call: the call returns
\* that I/O error and write_response is never called.
C7_PayloadFailure ==
    \A i \in CallsOf(TheCall, "read_to_string") :
        TheCall.calls[i][3] # "Ok" =>
            /\ TheCall.pc = "returned"
            /\ TheCall.result = "Err"
            /\ TheCall.error = TheCall.calls[i][3]
            /\ TheCall.error \in ErrorKinds
            /\ i = Len(TheCall.calls)
            /\ CallsOf(TheCall, "write_response") = {}

C7_Witness ==
    /\ TheCall.pc = "returned"
    /\ TheCall.request = GET_SLEEP
    /\ CallsOf(TheCall, "sleep") # {}
    /\ TheCall.calls[Len(TheCall.calls)][1] = "read_to_string"
    /\ TheCall.calls[Len(TheCall.calls)][3] = "NotFound"

(***************************************************************************)
(* Properties of main, under Spec.                                         *)
(***************************************************************************)
\* accept attempts that have returned
Attempts == IF count = 0 THEN 0 ELSE count - 1

\* the accept loop is over: main is in its join loop or has returned Ok(())
Draining == pc = "join" \/ (pc = "returned" /\ result = "Ok")

\* errors of handle_stream that tasks have reported
TaskErrors == stderr - failed

\* C1: when main has returned, every spawned task has finished, each having reported
\* either Ok or an error.
C1_AllFinishedAtExit ==
    pc = "returned" =>
        /\ \A i \in 1..Len(tasks) : tasks[i].pc = "finished"
        /\ stdout + TaskErrors = Len(tasks)

C1_Witness ==
    /\ pc = "returned"
    /\ Len(tasks) = capacity
    /\ stdout > 0
    /\ TaskErrors > 0

\* C8: once the bind has succeeded, main returns nothing but Ok(()), whatever accepts
\* failed and whatever errors the tasks reported.
C8_MainOkAfterBind ==
    /\ (pc = "returned" /\ count > 0) => result = "Ok"
    /\ result = "Err" => (count = 0 /\ accepted = 0 /\ failed = 0 /\ tasks = <<>>)

C8_Witness ==
    /\ pc = "returned"
    /\ result = "Ok"
    /\ failed > 0
    /\ TaskErrors > 0
    /\ stdout > 0

\* C9 as stated: a run that reaches the join loop has accepted exactly capacity
\* connections, each with its task's handle in tasks.
C9_Original ==
    Draining => (accepted = capacity /\ Len(tasks) = capacity)

\* C9, amended: a run that reaches Draining has made exactly capacity accept attempts
\* and has accepted capacity less the failed attempts (exactly capacity when none
\* failed); each accepted connection has exactly one task, its handle in tasks.
C9_AcceptedAtDraining ==
    Draining =>
        /\ Attempts = capacity
        /\ accepted = capacity - failed
        /\ Len(tasks) = accepted
        /\ failed = 0 => Len(tasks) = capacity

C9_Witness ==
    /\ pc = "join"
    /\ failed = 0
    /\ Len(tasks) = capacity

\* C10: a failed accept spawns nothing and counts as one of the capacity attempts:
\* the handles in tasks are as many as the successful accepts, which with the failed
\* ones are the attempts made, never more than capacity, and exactly capacity once
\* the loop is over.
C10_AcceptLoop ==
    /\ Len(tasks) = accepted
    /\ accepted + failed = Attempts
    /\ Attempts <= capacity
    /\ pc = "accept" => count <= capacity
    /\ Draining => Attempts = capacity

C10_Witness ==
    /\ pc = "join"
    /\ failed >= 2
    /\ accepted >= 2
    /\ accepted + failed = capacity

(***************************************************************************)
(* FairSpec: Spec with what the runtime guarantees.  A task whose timer    *)
(* has fired, whose file read has completed or whose write has completed   *)
(* is polled again, and so is main once the task it awaits has finished.   *)
(* Nothing guarantees that a client sends a line or closes its connection, *)
(* nor that another client connects: read_request and accept carry no      *)
(* fairness.                                                               *)
(***************************************************************************)
SchedulerFairness ==
    /\ \A i \in 1..capacity :
          /\ WF_vars(i <= Len(tasks) /\ TaskWake(i))
          /\ WF_vars(i <= Len(tasks) /\ TaskLoad(i))
          /\ WF_vars(i <= Len(tasks) /\ TaskWrite(i))
    /\ WF_vars(Join)

FairSpec == Spec /\ SchedulerFairness

\* every client eventually sends a line, closes its connection or loses it:
\* read_request returns
ClientsRespond == \A i \in 1..capacity : WF_vars(i <= Len(tasks) /\ TaskRead(i))

\* some task is suspended in the delay of the sleep route
Sleeping == {i \in 1..Len(tasks) : tasks[i].pc = "sleep"}

\* C11: while a task is suspended in the sleep route's delay, the accept loop can
\* take its next connection (or accept error) and every other running task can take
\* its next step: read and route, load, write.
C11_SleepBlocksNobody ==
    Sleeping # {} =>
        /\ (pc = "accept" /\ Cardinality(Running(tasks)) < MaxInFlight) => ENABLED AcceptOk
        /\ pc = "accept" => ENABLED AcceptErr
        /\ \A j \in 1..Len(tasks) :
              /\ tasks[j].pc = "read" => ENABLED TaskRead(j)
              /\ tasks[j].pc = "load" => ENABLED TaskLoad(j)
              /\ tasks[j].pc = "write" => ENABLED TaskWrite(j)

\* a connection accepted after a sleeping one has had its response written and its
\* task has reported Ok, the first still asleep, and main still accepting
C11_Witness ==
    /\ pc = "accept"
    /\ Len(tasks) = 2
    /\ tasks[1].pc = "sleep"
    /\ tasks[2].pc = "finished"
    /\ stdout = 1
    /\ TaskErrors = 0

\* C13: a failed bind ends main with that error at once: no accept was or will be
\* attempted, no task spawned, nothing reported, and no further step is possible.
C13_BindFailureFatal ==
    result = "Err" =>
        /\ pc = "returned"
        /\ count = 0 /\ accepted = 0 /\ failed = 0
        /\ tasks = <<>>
        /\ stdout = 0 /\ stderr = 0
        /\ ~ENABLED Next

C13_Witness ==
    /\ pc = "returned"
    /\ result = "Err"

\* C15: the join loop awaits the handles one at a time in push order: each await
\* returns only once that handle's task has finished, and the loop ends only after
\* the last handle, with Ok(()), whatever the tasks reported.
C15_JoinInOrder ==
    [][/\ joined' # joined =>
            /\ pc = "join"
            /\ joined' = joined + 1
            /\ tasks[joined'].pc = "finished"
            /\ pc' = "returned" <=> joined' = Len(tasks)
            /\ pc' = "returned" => result' = "Ok"
       /\ (pc = "join" /\ pc' # "join") => joined' = Len(tasks)]_vars

\* every task failed, and every handle was awaited
C15_Witness ==
    /\ pc = "returned"
    /\ joined = capacity
    /\ TaskErrors = capacity

\* the phase of main as a number: Listening, Accepting(count), Draining, Terminated
Phase ==
    CASE pc = "bind" -> 0
      [] pc = "accept" -> count
      [] pc = "join" -> capacity + 1
      [] pc = "returned" -> capacity + 2

\* C16: main's phases only move forward, Listening, Accepting(1..capacity), Draining,
\* Terminated: accepts are taken one at a time; until capacity attempts have
\* returned main stays in Accepting, awaits no handle and does not return, even with
\* every spawned task finished; once Draining has begun no accept is attempted.
C16_PhasesForward ==
    /\ [](/\ (count >= 1 /\ Attempts < capacity) =>
                 (pc = "accept" /\ result = "none" /\ joined = 0 /\ ~ENABLED Join)
          /\ joined > 0 => Attempts = capacity)
    /\ [][/\ Phase' >= Phase
          /\ count' # count => (count' = count + 1 /\ pc \in {"bind", "accept"})
          /\ Draining => (accepted' = accepted /\ failed' = failed /\ count' = count)]_vars

\* still in Accepting(capacity) although every spawned task has finished
C16_Witness ==
    /\ pc = "accept"
    /\ count = capacity
    /\ Len(tasks) >= 2
    /\ Running(tasks) = {}
    /\ joined = 0

\* the operations of the calls made so far
OpsOf(t) == [i \in 1..Len(t.calls) |-> t.calls[i][1]]

IsPrefix(a, b) == Len(a) <= Len(b) /\ SubSeq(b, 1, Len(a)) = a

\* C17: a call makes at most one read_request, at most one payload read and at most
\* one write_response, in that order (the delay, if any, between the first two);
\* a call that fails is the last: the handling ends there, with no retry.
C17_OnePassNoRetry ==
    LET ops == OpsOf(TheCall)
        direct == <<"read_request", "read_to_string", "write_response">>
        delayed == <<"read_request", "sleep", "read_to_string", "write_response">>
    IN  /\ IsPrefix(ops, direct) \/ IsPrefix(ops, delayed)
        /\ \A i \in 1..Len(ops) :
              TheCall.calls[i][3] # "Ok" =>
                  (i = Len(ops) /\ TheCall.pc = "returned" /\ TheCall.result = "Err")
        /\ (TheCall.pc = "returned" /\ TheCall.result = "Ok") => ops \in {direct, delayed}

C17_Witness ==
    /\ TheCall.pc = "returned"
    /\ Len(TheCall.calls) = 4
    /\ TheCall.calls[4][3] = "InvalidData"

\* C20: main never ends a task: a task stops running only in a step of its own, in
\* which its handle_stream call returns and is reported; a task blocked in
\* read_request leaves it only by read_request returning; no step of main changes a
\* task; and main does not return while a task is running.
C20_NoCancellation ==
    [][/\ \A i \in 1..Len(tasks) :
            /\ (tasks[i].pc # "finished" /\ tasks'[i].pc = "finished") =>
                   /\ stdout' + stderr' = stdout + stderr + 1
                   /\ failed' = failed
                   /\ UNCHANGED <<pc, count, joined, result>>
            /\ (tasks[i].pc = "read" /\ tasks'[i].pc # "read") =>
                   \/ tasks'[i].pc = "finished" /\ stderr' = stderr + 1
                   \/ /\ tasks'[i].pc \in {"sleep", "load"}
                      /\ tasks'[i].calls = << <<"read_request", NoBytes, "Ok">> >>
       /\ (pc' # pc \/ count' # count \/ joined' # joined) =>
             \A i \in 1..Len(tasks) : tasks'[i] = tasks[i]
       /\ pc' = "returned" => Running(tasks') = {}]_vars

\* Draining is stuck on its first handle, whose task is blocked in read_request,
\* every other task having finished
C20_Witness ==
    /\ pc = "join"
    /\ joined = 0
    /\ Len(tasks) = capacity
    /\ tasks[1].pc = "read"
    /\ Running(tasks) = {1}
    /\ ~ENABLED Join

\* all of the capacity accepts succeeded, every task has finished and reported, and
\* main has returned Ok(())
AllDone ==
    /\ pc = "returned"
    /\ result = "Ok"
    /\ Len(tasks) = capacity
    /\ Running(tasks) = {}
    /\ stdout + TaskErrors = capacity

\* C12 as stated: after capacity successful accepts the process always exits, each of
\* the capacity tasks having finished.
C12_Original == (accepted = capacity) ~> AllDone

\* C12, amended: after capacity successful accepts exactly capacity tasks have been
\* spawned, and if every client sends a line, closes or loses its connection, each
\* of them finishes with Ok or with an error and then the process exits.
C12_AllTasksFinish ==
    /\ [](accepted = capacity => Len(tasks) = capacity)
    /\ ClientsRespond => ((accepted = capacity) ~> AllDone)

C12_Witness ==
    /\ AllDone
    /\ stdout = capacity

\* the call has got past the match of its request line
Routed(t) == ReturnedOk(t, "read_request") /\ t.pc # "sleep"

\* C14: on the "GET /sleep HTTP/1.1" route the payload read, the write_response call
\* and the call's return happen no sooner than SLEEP_SECS seconds after the call
\* began; on every other route no Sleep is made and no delay is awaited.
C14_SleepRouteDelay ==
    /\ (TheCall.request = GET_SLEEP /\ Routed(TheCall)) =>
           /\ now >= SLEEP_SECS
           /\ now >= deadline
           /\ CallsOf(TheCall, "sleep") # {}
    /\ (ReturnedOk(TheCall, "read_request") /\ TheCall.request # GET_SLEEP) =>
           /\ TheCall.pc # "sleep"
           /\ CallsOf(TheCall, "sleep") = {}
           /\ deadline = 0
    /\ \A i \in CallsOf(TheCall, "sleep") : TheCall.calls[i][2] = SLEEP_SECS

\* the delayed call has returned Ok exactly when its delay was over
C14_Witness ==
    /\ TheCall.pc = "returned"
    /\ TheCall.result = "Ok"
    /\ TheCall.request = GET_SLEEP
    /\ now = SLEEP_SECS

\* the peer's bytes up to and without the first LF, all of them if there is none
SentLine ==
    LET k == FirstNewline(stream.data, 1)
    IN  IF k > 0 THEN SubSeq(stream.data, 1, k - 1) ELSE stream.data

\* a line arrived whole, or the peer closed after it
LineArrived == FirstNewline(stream.data, 1) > 0 \/ stream.end = "eof"

ReadFailed(t) == t.calls # <<>> /\ t.calls[1][1] = "read_request" /\ t.calls[1][3] # "Ok"

\* C19 as stated: read_request on a TcpStream fails only on a transport failure.
C19_Original ==
    ReadFailed(TheCall) => (~LineArrived /\ TheCall.error = stream.end)

\* C19, amended: on a TcpStream read_request returns the first line the peer sent
\* (without its LF or CR LF), the empty string when the peer closes without a byte,
\* and an error on a transport failure before the line is whole or, InvalidData, when
\* the line is not UTF-8; a peer that closes without sending is routed to 404 and,
\* once 404.html is read, the 404 response is passed to write_response.
C19_TcpReadRequest ==
    /\ ReturnedOk(TheCall, "read_request") =>
           /\ LineArrived
           /\ ValidUtf8(SentLine)
           /\ TheCall.request \in {SentLine, SubSeq(SentLine, 1, Len(SentLine) - 1)}
           /\ TheCall.request # SentLine =>
                  (SentLine[Len(SentLine)] = 13 /\ FirstNewline(stream.data, 1) > 0)
    /\ ReadFailed(TheCall) =>
           \/ ~LineArrived /\ TheCall.error = stream.end
           \/ LineArrived /\ ~ValidUtf8(SentLine) /\ TheCall.error = "InvalidData"
    /\ (stream.data = NoBytes /\ stream.end = "eof" /\ TheCall.calls # <<>>) =>
           /\ ReturnedOk(TheCall, "read_request")
           /\ TheCall.request = NoBytes
           /\ TheCall.status_line = STATUS_NOT_FOUND
           /\ Responds(TheCall, STATUS_NOT_FOUND, NOT_FOUND_FILE)
           /\ ReturnedOk(TheCall, "read_to_string") =>
                  (TheCall.pc = "write" \/ CallsOf(TheCall, "write_response") # {})
    /\ (TheCall.pc = "read" /\ ~ENABLED TcpRead) <=>
           (TheCall.pc = "read" /\ ~LineArrived /\ stream.end = "open")

\* the peer closed without sending, and the write of the 404 response was attempted
C19_Witness ==
    /\ stream = [data |-> NoBytes, end |-> "eof"]
    /\ TheCall.pc = "returned"
    /\ CallsOf(TheCall, "write_response") # {}
    /\ TheCall.status_line = STATUS_NOT_FOUND

====
